---- MODULE Spec2Model ----
(***************************************************************************)
(* The file selection and concatenation pipeline of concat_repo.py:        *)
(* get_files_with_extensions (the selector), concatenate_files (the        *)
(* concatenator) and save_concatenated_repo (selector, concatenator, then  *)
(* the write of the output file).                                          *)
(*                                                                         *)
(* Text (file names, suffixes, paths, file contents, the document) is a    *)
(* sequence of one-character strings, so that str.endswith, os.path.join   *)
(* and the += of the concatenator are computed character by character.     *)
(***************************************************************************)
EXTENDS Integers, Sequences, FiniteSets

VARIABLES
    rootKind,              \* what repo_path names: "dir", "missing" or "notdir"
    parent,                \* the directory tree: parent[d] of every directory d but the root
    unreadable,            \* the directories whose listing fails with PermissionError
    files,                 \* the files on disk: records [dir, name, content, status]
    extensions,            \* argument: the suffixes to include, in order
    excluded_extensions,   \* argument: the suffixes to exclude, in order
    stack,                 \* os.walk: the directories still to be listed, next first
    cur,                   \* os.walk: the directory of the triple yielded last (root of line 14)
    pending,               \* the names of `files` of line 15 not yet iterated
    matched_files,         \* line 13: the list being built, then the argument of concatenate_files
    log,                   \* standard output: the file named by each "Excluding file: ..." line
    idx,                   \* concatenate_files: position of the for loop of line 37 in the list
    concatenated_content,  \* line 36 / line 52
    handles,               \* the file objects that are open
    outFile,               \* the file at output_path: [exists, content]
    outBefore,             \* the file at output_path as it was when the run began
    err,                   \* the exception that ended the run: "none", "open", "read", "sink_open", "write"
    races,                 \* how many files were removed under the run's feet
    pc                     \* where the run stands

vars == <<rootKind, parent, unreadable, files, extensions, excluded_extensions,
          stack, cur, pending, matched_files, log, idx, concatenated_content,
          handles, outFile, outBefore, err, races, pc>>

(***************************************************************************)
(* Bounds of the model.                                                    *)
(***************************************************************************)
MaxDirs == 2      \* directories in the tree, the root included
MaxFiles == 2     \* files in the tree
MaxList == 2      \* length of the list handed to concatenate_files alone
MaxRaces == 1     \* files removed between selection and read

(***************************************************************************)
(* Text.                                                                   *)
(***************************************************************************)
NL == "\n"
Slash == "/"

\* The literal of line 39, f"File: {file}\n", up to the path.
Marker == <<"F", "i", "l", "e", ":", " ">>

\* Suffixes.
SufGo == <<".", "g", "o">>
SufPy == <<".", "p", "y">>
SufTestGo == <<"_", "t", "e", "s", "t", ".", "g", "o">>
SufPbGo == <<".", "p", "b", ".", "g", "o">>

\* File names.
NameAGo == <<"a", ".", "g", "o">>
NameATestGo == <<"a", "_", "t", "e", "s", "t", ".", "g", "o">>
NameXPbGo == <<"x", ".", "p", "b", ".", "g", "o">>
NameBPy == <<"b", ".", "p", "y">>
NameReadme == <<"R", ".", "m", "d">>
NameMarker == Marker

\* repo_path, and the names of the directories under it.
RepoPath == <<"r">>
DirChars == <<"r", "s", "t", "u", "v", "w">>

DirIds == 1..MaxDirs
Root == 1

\* str.endswith(suffix)
EndsWith(s, suffix) ==
    /\ Len(suffix) <= Len(s)
    /\ SubSeq(s, Len(s) - Len(suffix) + 1, Len(s)) = suffix

\* os.path.join(a, b) for a relative b
Join(a, b) ==
    IF a = <<>> THEN b
    ELSE IF a[Len(a)] = Slash THEN a \o b
    ELSE a \o <<Slash>> \o b

\* The path os.walk yields as `root` for directory d: repo_path for the root,
\* join(top, dirname) below it.
RECURSIVE DirPath(_)
DirPath(d) ==
    IF d = Root THEN RepoPath
    ELSE Join(DirPath(parent[d]), <<DirChars[d]>>)

\* Line 25: os.path.join(root, file)
FilePath(f) == Join(DirPath(f.dir), f.name)

\* The permutations of a finite set, as sequences: the orders in which
\* os.scandir may list a directory.
Perms(S) ==
    {q \in [1..Cardinality(S) -> S] : \A i, j \in 1..Cardinality(S) : i # j => q[i] # q[j]}

(***************************************************************************)
(* get_files_with_extensions, lines 13-26.                                 *)
(***************************************************************************)

\* Lines 16-21 without the break: every matching excluded suffix prints.
RECURSIVE ExcludeLoopNoBreak(_, _)
ExcludeLoopNoBreak(file, exc) ==
    IF exc = <<>> THEN [skip |-> FALSE, out |-> <<>>]
    ELSE LET rest == ExcludeLoopNoBreak(file, Tail(exc))
         IN  IF EndsWith(file, Head(exc))
             THEN [skip |-> TRUE, out |-> <<file>> \o rest.out]
             ELSE rest

\* Lines 16-21: the loop over excluded_extensions; the first suffix the name
\* ends with prints one line, sets skip and breaks.
RECURSIVE ExcludeLoop(_, _)
ExcludeLoop(file, exc) ==
    IF exc = <<>> THEN [skip |-> FALSE, out |-> <<>>]
    ELSE IF EndsWith(file, Head(exc)) THEN [skip |-> TRUE, out |-> <<file>>]
    ELSE ExcludeLoop(file, Tail(exc))

\* Line 24 with all() for any().
AllExtensionsMatch(file, exts) ==
    \A i \in 1..Len(exts) : EndsWith(file, exts[i])

\* Line 24: any(file.endswith(ext) for ext in extensions)
AnyExtensionMatches(file, exts) ==
    \E i \in 1..Len(exts) : EndsWith(file, exts[i])

\* Lines 22-25 with the include test made before the skip.
KeepsIncludeFirst(file, exts, exc) ==
    AnyExtensionMatches(file, exts) \/ ~ExcludeLoop(file, exc).skip

\* Lines 22-25: the file is appended iff the loop did not skip it and line 24 holds.
Keeps(file, exts, exc) ==
    ~ExcludeLoop(file, exc).skip /\ AnyExtensionMatches(file, exts)

\* os.scandir(top) succeeds: top is a directory that can be listed.
Listable(d) == rootKind = "dir" /\ d \notin unreadable

SubDirs(d) == {c \in DirIds \ {Root} : parent[c] = d}
FileNames(d) == {f.name : f \in {g \in files : g.dir = d}}

\* One step of os.walk(repo_path), line 14: the next directory is listed. A
\* listing that fails (onerror is None) yields nothing for that directory
\* and the walk goes on; one that succeeds yields (root, dirs, files) and
\* queues the subdirectories behind the loop body, in the order listed.
WalkDir ==
    /\ pc = "walk"
    /\ stack # <<>>
    /\ LET d == Head(stack)
       IN  IF ~Listable(d)
           THEN /\ stack' = Tail(stack)
                /\ UNCHANGED <<cur, pending, pc>>
           ELSE /\ cur' = d
                /\ \E order \in Perms(SubDirs(d)) : stack' = order \o Tail(stack)
                /\ \E order \in Perms(FileNames(d)) : pending' = order
                /\ pc' = IF FileNames(d) = {} THEN "walk" ELSE "files"
    /\ UNCHANGED <<rootKind, parent, unreadable, files, extensions, excluded_extensions,
                   matched_files, log, idx, concatenated_content, handles, outFile,
                   outBefore, err, races>>

\* One iteration of the loop of line 15, lines 16-25.
VisitFile ==
    /\ pc = "files"
    /\ pending # <<>>
    /\ LET file == Head(pending)
       IN  /\ log' = log \o ExcludeLoop(file, excluded_extensions).out
           /\ matched_files' =
                 IF Keeps(file, extensions, excluded_extensions)
                 THEN Append(matched_files, Join(DirPath(cur), file))
                 ELSE matched_files
    /\ pending' = Tail(pending)
    /\ pc' = IF Tail(pending) = <<>> THEN "walk" ELSE "files"
    /\ UNCHANGED <<rootKind, parent, unreadable, files, extensions, excluded_extensions,
                   stack, cur, idx, concatenated_content, handles, outFile, outBefore,
                   err, races>>

\* Line 26: the walk is exhausted, the list is returned.
ReturnFiles ==
    /\ pc = "walk"
    /\ stack = <<>>
    /\ pc' = "selected"
    /\ UNCHANGED <<rootKind, parent, unreadable, files, extensions, excluded_extensions,
                   stack, cur, pending, matched_files, log, idx, concatenated_content,
                   handles, outFile, outBefore, err, races>>

(***************************************************************************)
(* concatenate_files, lines 36-41.                                         *)
(***************************************************************************)

\* The file a path names, if any (a set of at most one record).
Lookup(path) == {f \in files : FilePath(f) = path}

\* The file object of an input path, and that of output_path.
InHandle(path) == [kind |-> "in", path |-> path]
OutHandle == [kind |-> "out", path |-> <<>>]

\* Line 39 with the marker left out.
HeaderNoMarker(path) == path \o <<NL>>

\* Line 39: f"File: {file}\n"
Header(path) == Marker \o path \o <<NL>>

\* Line 40 with one newline for two.
BodyOneNewline(data) == data \o <<NL>>

\* Line 40: f.read() + "\n\n"
Body(data) == data \o <<NL, NL>>

\* Line 36: concatenated_content = "", and the for loop of line 37 begins.
StartConcat ==
    /\ pc = "selected"
    /\ concatenated_content' = <<>>
    /\ idx' = 1
    /\ pc' = "loop"
    /\ UNCHANGED <<rootKind, parent, unreadable, files, extensions, excluded_extensions,
                   stack, cur, pending, matched_files, log, handles, outFile, outBefore,
                   err, races>>

\* Line 38 with a file that cannot be opened passed over instead of raising.
OpenInputSkipping ==
    /\ pc = "loop"
    /\ idx <= Len(matched_files)
    /\ LET path == matched_files[idx]
       IN  IF \E f \in Lookup(path) : f.status # "unreadable"
           THEN /\ handles' = handles \cup {InHandle(path)}
                /\ pc' = "opened"
                /\ UNCHANGED <<err, idx>>
           ELSE /\ err' = "open"
                /\ idx' = idx + 1
                /\ UNCHANGED <<handles, pc>>
    /\ UNCHANGED <<rootKind, parent, unreadable, files, extensions, excluded_extensions,
                   stack, cur, pending, matched_files, log, concatenated_content,
                   outFile, outBefore, races>>

\* Line 38: open(file, "r"). A path that names no file (FileNotFoundError) or
\* a file that may not be read (PermissionError) raises; nothing catches it.
OpenInput ==
    /\ pc = "loop"
    /\ idx <= Len(matched_files)
    /\ LET path == matched_files[idx]
       IN  IF \E f \in Lookup(path) : f.status # "unreadable"
           THEN /\ handles' = handles \cup {InHandle(path)}
                /\ pc' = "opened"
                /\ UNCHANGED err
           ELSE /\ err' = "open"
                /\ pc' = "error"
                /\ UNCHANGED handles
    /\ UNCHANGED <<rootKind, parent, unreadable, files, extensions, excluded_extensions,
                   stack, cur, pending, matched_files, log, idx, concatenated_content,
                   outFile, outBefore, races>>

\* Lines 39-40 without the with statement: a failed read leaves the file open.
ReadInputLeaking ==
    /\ pc = "opened"
    /\ LET path == matched_files[idx]
           f == CHOOSE g \in Lookup(path) : TRUE
       IN  IF f.status = "undecodable"
           THEN /\ concatenated_content' = concatenated_content \o Header(path)
                /\ err' = "read"
                /\ pc' = "error"
                /\ UNCHANGED handles
           ELSE /\ concatenated_content' =
                      concatenated_content \o Header(path) \o Body(f.content)
                /\ pc' = "read"
                /\ UNCHANGED <<handles, err>>
    /\ UNCHANGED <<rootKind, parent, unreadable, files, extensions, excluded_extensions,
                   stack, cur, pending, matched_files, log, idx, outFile, outBefore,
                   races>>

\* Lines 39-40: the header is appended, then f.read() and the separator.
\* f.read() raises UnicodeDecodeError on bytes that are not text; the with
\* statement of line 38 closes the file as the exception leaves it.
ReadInput ==
    /\ pc = "opened"
    /\ LET path == matched_files[idx]
           f == CHOOSE g \in Lookup(path) : TRUE
       IN  IF f.status = "undecodable"
           THEN /\ concatenated_content' = concatenated_content \o Header(path)
                /\ handles' = handles \ {InHandle(path)}
                /\ err' = "read"
                /\ pc' = "error"
           ELSE /\ concatenated_content' =
                      concatenated_content \o Header(path) \o Body(f.content)
                /\ pc' = "read"
                /\ UNCHANGED <<handles, err>>
    /\ UNCHANGED <<rootKind, parent, unreadable, files, extensions, excluded_extensions,
                   stack, cur, pending, matched_files, log, idx, outFile, outBefore,
                   races>>

\* The end of the with block of line 38: the file is closed, the loop goes on.
CloseInput ==
    /\ pc = "read"
    /\ handles' = handles \ {InHandle(matched_files[idx])}
    /\ idx' = idx + 1
    /\ pc' = "loop"
    /\ UNCHANGED <<rootKind, parent, unreadable, files, extensions, excluded_extensions,
                   stack, cur, pending, matched_files, log, concatenated_content,
                   outFile, outBefore, err, races>>

\* Line 41: the loop is over, the document is returned.
ReturnContent ==
    /\ pc = "loop"
    /\ idx > Len(matched_files)
    /\ pc' = "concatenated"
    /\ UNCHANGED <<rootKind, parent, unreadable, files, extensions, excluded_extensions,
                   stack, cur, pending, matched_files, log, idx, concatenated_content,
                   handles, outFile, outBefore, err, races>>

\* The file system under the run's feet: a selected file that has not been
\* opened yet is removed by another process.
Vanish ==
    /\ pc \in {"selected", "loop"}
    /\ races < MaxRaces
    /\ \E f \in files :
          /\ \E i \in (IF pc = "selected" THEN 1 ELSE idx)..Len(matched_files) :
                matched_files[i] = FilePath(f)
          /\ files' = files \ {f}
    /\ races' = races + 1
    /\ UNCHANGED <<rootKind, parent, unreadable, extensions, excluded_extensions,
                   stack, cur, pending, matched_files, log, idx, concatenated_content,
                   handles, outFile, outBefore, err, pc>>

(***************************************************************************)
(* save_concatenated_repo, lines 51-54. Line 51 is the walk above, line 52 *)
(* the concatenation; what follows is the with block of lines 53-54.       *)
(***************************************************************************)

\* The first n characters of s.
Prefix(s, n) == SubSeq(s, 1, n)

\* Line 53 opening the sink in append mode: what the file held stays.
OpenOutputAppending ==
    /\ pc = "concatenated"
    /\ \/ /\ outFile' = [exists |-> TRUE, content |-> outFile.content]
          /\ handles' = handles \cup {OutHandle}
          /\ pc' = "out_open"
          /\ UNCHANGED err
       \/ /\ err' = "sink_open"
          /\ pc' = "error"
          /\ UNCHANGED <<outFile, handles>>
    /\ UNCHANGED <<rootKind, parent, unreadable, files, extensions, excluded_extensions,
                   stack, cur, pending, matched_files, log, idx, concatenated_content,
                   outBefore, races>>

\* Line 53: open(output_path, "w") creates the file or truncates it; it
\* raises when the path cannot be written, and the file is left alone.
OpenOutput ==
    /\ pc = "concatenated"
    /\ \/ /\ outFile' = [exists |-> TRUE, content |-> <<>>]
          /\ handles' = handles \cup {OutHandle}
          /\ pc' = "out_open"
          /\ UNCHANGED err
       \/ /\ err' = "sink_open"
          /\ pc' = "error"
          /\ UNCHANGED <<outFile, handles>>
    /\ UNCHANGED <<rootKind, parent, unreadable, files, extensions, excluded_extensions,
                   stack, cur, pending, matched_files, log, idx, concatenated_content,
                   outBefore, races>>

\* Line 54: f.write(concatenated_content), after what the sink holds since
\* its open. A write that fails (the disk is full) leaves some prefix of the
\* document behind; the with statement closes the file as the exception
\* leaves it.
WriteOutput ==
    /\ pc = "out_open"
    /\ \/ /\ outFile' = [exists |-> TRUE,
                         content |-> outFile.content \o concatenated_content]
          /\ pc' = "written"
          /\ UNCHANGED <<handles, err>>
       \/ /\ \E n \in 0..Len(concatenated_content) :
                outFile' = [exists |-> TRUE,
                            content |-> outFile.content \o Prefix(concatenated_content, n)]
          /\ handles' = handles \ {OutHandle}
          /\ err' = "write"
          /\ pc' = "error"
    /\ UNCHANGED <<rootKind, parent, unreadable, files, extensions, excluded_extensions,
                   stack, cur, pending, matched_files, log, idx, concatenated_content,
                   outBefore, races>>

\* The end of the with block of line 53: the sink is closed, the run is over.
CloseOutput ==
    /\ pc = "written"
    /\ handles' = handles \ {OutHandle}
    /\ pc' = "done"
    /\ UNCHANGED <<rootKind, parent, unreadable, files, extensions, excluded_extensions,
                   stack, cur, pending, matched_files, log, idx, concatenated_content,
                   outFile, outBefore, err, races>>

(***************************************************************************)
(* Initial states: the file system and the arguments of the call.          *)
(***************************************************************************)
Statuses == {"ok", "unreadable", "undecodable"}

\* The shapes of a tree of MaxDirs directories.
Trees == {p \in [DirIds \ {Root} -> DirIds] : \A d \in DirIds \ {Root} : p[d] < d}

\* The sets of at most MaxFiles files with their (directory, name) among ids,
\* no two files of one directory sharing a name.
FileSets(ids, contents, statuses) ==
    UNION { { { [dir |-> i[1], name |-> i[2], content |-> a[i].content,
                 status |-> a[i].status] : i \in I }
              : a \in [I -> [content : contents, status : statuses]] }
            : I \in {J \in SUBSET ids : Cardinality(J) <= MaxFiles} }

\* The sequences over S of length at most n.
SeqsUpTo(S, n) == UNION {[1..k -> S] : k \in 0..n}

NoFile == [exists |-> FALSE, content |-> <<>>]
OldFile == [exists |-> TRUE, content |-> <<"o">>]

\* What every call starts from.
Fresh ==
    /\ cur = Root
    /\ pending = <<>>
    /\ log = <<>>
    /\ idx = 1
    /\ concatenated_content = <<>>
    /\ handles = {}
    /\ outFile = outBefore
    /\ err = "none"
    /\ races = 0

\* A file system: a tree under an existing root, or a root that is missing
\* or is not a directory (and then has nothing under it).
FileSystem(names, contents, statuses) ==
    /\ rootKind \in {"dir", "missing", "notdir"}
    /\ parent \in Trees
    /\ unreadable \in SUBSET DirIds
    /\ files \in FileSets(DirIds \X names, contents, statuses)
    /\ rootKind # "dir" =>
          /\ files = {}
          /\ unreadable = {}
          /\ \A d \in DirIds \ {Root} : parent[d] = Root

SelectNames == {NameAGo, NameATestGo, NameXPbGo, NameBPy, NameReadme}
IncludeLists == {<<>>, <<SufGo>>, <<SufGo, SufPy>>}
ExcludeLists == {<<>>, <<SufTestGo>>, <<SufPbGo, SufGo>>, <<SufTestGo, SufPbGo>>}

\* get_files_with_extensions(repo_path, extensions, excluded_extensions)
InitSelect ==
    /\ FileSystem(SelectNames, {<<"x">>}, {"ok"})
    /\ extensions \in IncludeLists
    /\ excluded_extensions \in ExcludeLists
    /\ stack = <<Root>>
    /\ matched_files = <<>>
    /\ outBefore = NoFile
    /\ Fresh
    /\ pc = "walk"

NextSelect == WalkDir \/ VisitFile \/ ReturnFiles

SpecSelect == InitSelect /\ [][NextSelect]_vars

ConcatNames == {NameAGo, NameMarker}
ConcatContents == {<<>>, <<"x">>, Marker \o <<"q">>}

\* concatenate_files(files), for any list of paths, existing or not
InitConcat ==
    /\ rootKind = "dir"
    /\ parent \in Trees
    /\ \A d \in DirIds \ {Root} : parent[d] = Root
    /\ unreadable = {}
    /\ files \in FileSets({Root} \X ConcatNames, ConcatContents, Statuses)
    /\ extensions = <<>>
    /\ excluded_extensions = <<>>
    /\ stack = <<>>
    /\ matched_files \in SeqsUpTo({Join(RepoPath, n) : n \in ConcatNames}, MaxList)
    /\ outBefore = NoFile
    /\ Fresh
    /\ pc = "selected"

NextConcat == StartConcat \/ OpenInput \/ ReadInput \/ CloseInput \/ ReturnContent

SpecConcat == InitConcat /\ [][NextConcat]_vars

SaveNames == {NameAGo, NameATestGo}

\* save_concatenated_repo(repo_path, extensions, excluded_extensions, output_path)
Init ==
    /\ FileSystem(SaveNames, {<<"x">>}, Statuses)
    /\ extensions \in {<<>>, <<SufGo>>}
    /\ excluded_extensions \in {<<>>, <<SufTestGo>>}
    /\ stack = <<Root>>
    /\ matched_files = <<>>
    /\ outBefore \in {NoFile, OldFile}
    /\ Fresh
    /\ pc = "walk"

Next ==
    \/ WalkDir \/ VisitFile \/ ReturnFiles
    \/ StartConcat \/ OpenInput \/ ReadInput \/ CloseInput \/ ReturnContent
    \/ Vanish
    \/ OpenOutput \/ WriteOutput \/ CloseOutput

Spec == Init /\ [][Next]_vars

(***************************************************************************)
(* What the claims speak of.                                               *)
(***************************************************************************)

\* The last component of a path: what follows its last slash.
RECURSIVE Basename(_)
Basename(path) ==
    IF path = <<>> THEN <<>>
    ELSE IF path[Len(path)] = Slash THEN <<>>
    ELSE Append(Basename(SubSeq(path, 1, Len(path) - 1)), path[Len(path)])

\* A directory the traversal can list: it and every directory above it, up
\* to the root, can be listed. The files of such directories are the files
\* reachable under the root.
RECURSIVE Reached(_)
Reached(d) == Listable(d) /\ (d = Root \/ Reached(parent[d]))

ReachableFiles == {f \in files : Reached(f.dir)}

ExcludedName(name) ==
    \E i \in DOMAIN excluded_extensions : EndsWith(name, excluded_extensions[i])
IncludedName(name) ==
    \E i \in DOMAIN extensions : EndsWith(name, extensions[i])

\* How many times x stands in the sequence q.
Count(q, x) == Cardinality({i \in DOMAIN q : q[i] = x})

\* How many occurrences of the text m the text s holds.
Occurrences(m, s) ==
    Cardinality({k \in 1..Len(s) :
                    /\ k + Len(m) - 1 <= Len(s)
                    /\ SubSeq(s, k, k + Len(m) - 1) = m})

\* What the file at a path holds.
ContentOf(path) == (CHOOSE f \in Lookup(path) : TRUE).content

Readable(path) == \E f \in Lookup(path) : f.status = "ok"

\* One block of the document, and the document of a list.
Block(path) == Marker \o path \o <<NL>> \o ContentOf(path) \o <<NL, NL>>

RECURSIVE Document(_)
Document(L) == IF L = <<>> THEN <<>> ELSE Block(Head(L)) \o Document(Tail(L))

\* The sum of f[i] over i in 1..n.
RECURSIVE Sum(_, _)
Sum(f, n) == IF n = 0 THEN 0 ELSE f[n] + Sum(f, n - 1)

\* Where block i of the document of L begins (an offset, 0 for the first).
BlockOffset(L, i) ==
    Sum([j \in 1..Len(L) |-> Len(Marker) + Len(L[j]) + 1 + Len(ContentOf(L[j])) + 2], i - 1)

(***************************************************************************)
(* C1. Exclusion precedence: at every point of the traversal, no path of   *)
(* the list names a file whose name ends with an excluded suffix, whether  *)
(* or not the name also ends with an included suffix.                      *)
(***************************************************************************)
C1_ExclusionPrecedence ==
    \A i \in DOMAIN matched_files : ~ExcludedName(Basename(matched_files[i]))

\* A traversal is over that met a file matching both lists, and kept another.
C1_Witness ==
    /\ pc = "selected"
    /\ matched_files # <<>>
    /\ \E f \in ReachableFiles : ExcludedName(f.name) /\ IncludedName(f.name)

(***************************************************************************)
(* C2. Inclusion completeness without duplicates: the list returned holds  *)
(* the path of every reachable file whose name ends with an included       *)
(* suffix and with no excluded suffix exactly once, and no other path.     *)
(***************************************************************************)
C2_InclusionComplete ==
    pc = "selected" =>
        /\ \A f \in ReachableFiles :
              (IncludedName(f.name) /\ ~ExcludedName(f.name))
                  => Count(matched_files, FilePath(f)) = 1
        /\ \A i \in DOMAIN matched_files :
              \E f \in ReachableFiles :
                  /\ FilePath(f) = matched_files[i]
                  /\ IncludedName(f.name)
                  /\ ~ExcludedName(f.name)

\* Two files of one name in two directories are both returned, under an
\* include list of two suffixes.
C2_Witness ==
    /\ pc = "selected"
    /\ Len(matched_files) = 2
    /\ Len(extensions) = 2
    /\ \E f, g \in ReachableFiles : f.dir # g.dir /\ f.name = g.name

(***************************************************************************)
(* C3. For a list L of readable paths concatenate_files does not fail and  *)
(* returns the blocks 'File: ' + path + newline + content + two newlines   *)
(* of the elements of L, in the order of L, and nothing else; block i      *)
(* begins with the header of L[i]. While the loop runs the document is     *)
(* that of the elements already read.                                      *)
(***************************************************************************)
C3_ConcatenationExact ==
    /\ (\A i \in DOMAIN matched_files : Readable(matched_files[i])) => pc # "error"
    /\ pc = "loop" =>
          concatenated_content = Document(SubSeq(matched_files, 1, idx - 1))
    /\ pc = "concatenated" =>
          /\ concatenated_content = Document(matched_files)
          /\ \A i \in DOMAIN matched_files :
                LET at == BlockOffset(matched_files, i)
                    header == Marker \o matched_files[i] \o <<NL>>
                IN  SubSeq(concatenated_content, at + 1, at + Len(header)) = header

\* A list of two different files, both with something in them, was concatenated.
C3_Witness ==
    /\ pc = "concatenated"
    /\ Len(matched_files) = 2
    /\ matched_files[1] # matched_files[2]
    /\ \A i \in DOMAIN matched_files : ContentOf(matched_files[i]) # <<>>

(***************************************************************************)
(* C4 as claimed: the document of L holds exactly len(L) occurrences of    *)
(* 'File: ', whatever the files hold.                                      *)
(***************************************************************************)
C4_ExactlyLenMarkers ==
    pc = "concatenated" =>
        Occurrences(Marker, concatenated_content) = Len(matched_files)

(***************************************************************************)
(* C4 as amended: the document of L holds one header marker per element    *)
(* of L, at the start of its block and immediately followed by its path,   *)
(* and beyond these exactly the occurrences of 'File: ' that the paths and *)
(* the contents of the files themselves hold: len(L) occurrences exactly   *)
(* when no path and no content holds the marker.                           *)
(***************************************************************************)
C4_MarkerCount ==
    pc = "concatenated" =>
        /\ Occurrences(Marker, concatenated_content) =
              Len(matched_files)
              + Sum([i \in DOMAIN matched_files |->
                        Occurrences(Marker, matched_files[i])
                        + Occurrences(Marker, ContentOf(matched_files[i]))],
                    Len(matched_files))
        /\ \A i \in DOMAIN matched_files :
              LET at == BlockOffset(matched_files, i)
              IN  SubSeq(concatenated_content, at + 1,
                         at + Len(Marker) + Len(matched_files[i]))
                      = Marker \o matched_files[i]

\* A document holds more markers than it has blocks.
C4_Witness ==
    /\ pc = "concatenated"
    /\ matched_files # <<>>
    /\ Occurrences(Marker, concatenated_content) > Len(matched_files)

(***************************************************************************)
(* C5. No partial output: once opening or reading a selected file has      *)
(* failed the run is over with that error, the output file is as it was    *)
(* before the run and the sink was never opened; and the sink is opened,   *)
(* or the output file touched, only after every selected file was read.    *)
(***************************************************************************)
C5_NoPartialOutput ==
    /\ err \in {"open", "read"} =>
          /\ pc = "error"
          /\ outFile = outBefore
          /\ OutHandle \notin handles
    /\ (OutHandle \in handles \/ outFile # outBefore
           \/ pc \in {"out_open", "written", "done"}) =>
          /\ err \notin {"open", "read"}
          /\ idx = Len(matched_files) + 1

\* The second selected file could not be decoded, after the first was read,
\* and an output file was there before the run.
C5_Witness ==
    /\ pc = "error"
    /\ err = "read"
    /\ idx = 2
    /\ outBefore = OldFile

(***************************************************************************)
(* C6 as claimed: when the root does not exist, is not a directory or      *)
(* cannot be read, the run fails before any traversal, so it never gets    *)
(* as far as the sink: the output file is neither opened nor touched.      *)
(***************************************************************************)
C6_BadRootFailsFast ==
    (rootKind # "dir" \/ Root \in unreadable) =>
        /\ pc \notin {"out_open", "written", "done"}
        /\ outFile = outBefore

\* Directory c is d or lies under d.
RECURSIVE Under(_, _)
Under(c, d) == c = d \/ (c # Root /\ Under(parent[c], d))

(***************************************************************************)
(* C7 as claimed: when the traversal meets a subdirectory that cannot be   *)
(* listed and that holds files the lists select, the error is surfaced:    *)
(* get_files_with_extensions does not return a list (which would be one    *)
(* without those files).                                                   *)
(***************************************************************************)
C7_PermissionErrorSurfaced ==
    (\E d \in DirIds \ {Root} :
        /\ Reached(parent[d])
        /\ d \in unreadable
        /\ \E f \in files :
              /\ Under(f.dir, d)
              /\ IncludedName(f.name)
              /\ ~ExcludedName(f.name)) =>
        pc # "selected"

(***************************************************************************)
(* C8. Empty input: for a root directory with no file under it (and none   *)
(* removed meanwhile) the list returned is empty, the document is the      *)
(* empty string, no input error arises, and the output file, once          *)
(* written, exists and is empty.                                           *)
(***************************************************************************)
C8_EmptyInput ==
    (rootKind = "dir" /\ files = {} /\ races = 0) =>
        /\ matched_files = <<>>
        /\ concatenated_content = <<>>
        /\ err \notin {"open", "read"}
        /\ pc \in {"out_open", "written", "done"} =>
              outFile = [exists |-> TRUE, content |-> <<>>]

\* The run is over for an empty tree, over an output file that held something.
C8_Witness ==
    /\ pc = "done"
    /\ rootKind = "dir"
    /\ files = {}
    /\ races = 0
    /\ outBefore = OldFile
    /\ extensions # <<>>

(***************************************************************************)
(* C9. Exclusion diagnostic: when the traversal is over, each file name    *)
(* has been printed once for every reachable file of that name ending      *)
(* with an excluded suffix, however many excluded suffixes it ends with,   *)
(* and never for a name ending with none; the traversal never ends in an   *)
(* error.                                                                  *)
(***************************************************************************)
C9_SkipNotifiedOnce ==
    /\ pc # "error"
    /\ err = "none"
    /\ \A i \in DOMAIN log : ExcludedName(log[i])
    /\ pc = "selected" =>
          \A name \in {f.name : f \in files} \cup {log[i] : i \in DOMAIN log} :
              Count(log, name) =
                  IF ExcludedName(name)
                  THEN Cardinality({f \in ReachableFiles : f.name = name})
                  ELSE 0

\* A file ending with two excluded suffixes and a file ending with none were visited.
C9_Witness ==
    /\ pc = "selected"
    /\ \E f \in ReachableFiles :
          Cardinality({i \in DOMAIN excluded_extensions :
                          EndsWith(f.name, excluded_extensions[i])}) = 2
    /\ \E f \in ReachableFiles : ~ExcludedName(f.name)

(***************************************************************************)
(* C10. Scoped file handles: at every point of a run at most one file is   *)
(* open, and when the run is over, normally or by an error, none is.       *)
(***************************************************************************)
C10_ScopedHandles ==
    /\ Cardinality(handles) <= 1
    /\ pc \in {"done", "error"} => handles = {}

\* A read failed while the input file was open.
C10_Witness ==
    /\ pc = "error"
    /\ err = "read"
    /\ handles = {}

====
